---- MODULE Spec2Model ----
(***************************************************************************)
(* A model of work_in_class/histograms.py (class Histograms) and of        *)
(* plot_utility/list_class_headers.py (list_variables).                    *)
(*                                                                         *)
(* The sources are Python 2 (print statements, map() used as a list) on    *)
(* NumPy 1.x; the model follows those semantics:                           *)
(*   - an ndarray index i is valid for -n <= i < n and a negative index    *)
(*     counts from the end; anything else raises IndexError;               *)
(*   - `x in list` compares by identity first, then by ==, and the truth   *)
(*     value of an ndarray with more than one element raises ValueError;   *)
(*   - `ndarray == []` is false (scalar False or an empty array);           *)
(*   - np.cov of no data is a 0-d array holding not-a-number, which        *)
(*     np.diag and item assignment reject.                                 *)
(* Samples are integers and every derived number is an exact rational      *)
(* [num, den] in lowest terms; den = 0 is the float not-a-number.  A       *)
(* correlation entry cov / sqrt(c_i * c_j) is kept as the pair             *)
(* [num, rad] standing for num / sqrt(rad).                                *)
(***************************************************************************)
EXTENDS Integers, Sequences, FiniteSets, TLC

\* ---------------------------------------------------------------- bounds
\* Spec: an empty session reads datasets of 2..MaxRows rows, 2..MaxSamples
\* samples, values 0..MaxVal, with a header of 1..MaxLabels bin labels or
\* none; compute_covariance_bin is called with zbin in 0..MaxRows.
MaxRows == 2
MaxSamples == 2
MaxVal == 1
MaxLabels == 2
\* SpecSigma: an empty session reads one free row of 2..SigmaMaxSamples
\* samples, values 0..SigmaMaxVal, beside a row of zeros.
SigmaMaxSamples == 8
SigmaMaxVal == 4

\* ------------------------------------------------------------ arithmetic
Abs(x) == IF x < 0 THEN -x ELSE x

RECURSIVE GCD(_, _)
GCD(a, b) == IF b = 0 THEN a ELSE GCD(b, a % b)

\* The rational n/d (d > 0) in lowest terms.
Rat(n, d) ==
  LET g == GCD(Abs(n), d)
  IN  [num |-> n \div g, den |-> d \div g]

NaN == [num |-> 0, den |-> 0]
IsNaN(r) == r.den = 0
FromInt(i) == [num |-> i, den |-> 1]

RatAdd(a, b) ==
  IF IsNaN(a) \/ IsNaN(b) THEN NaN
  ELSE Rat(a.num * b.den + b.num * a.den, a.den * b.den)
RatSub(a, b) ==
  IF IsNaN(a) \/ IsNaN(b) THEN NaN
  ELSE Rat(a.num * b.den - b.num * a.den, a.den * b.den)
RatMul(a, b) ==
  IF IsNaN(a) \/ IsNaN(b) THEN NaN
  ELSE Rat(a.num * b.num, a.den * b.den)
RatDivInt(a, k) == IF IsNaN(a) THEN NaN ELSE Rat(a.num, a.den * k)
RatAbs(a) == [num |-> Abs(a.num), den |-> a.den]
RatLess(a, b) == a.num * b.den < b.num * a.den
RatNonNeg(a) == a.num >= 0

RECURSIVE RatSum(_)
RatSum(s) == IF s = <<>> THEN FromInt(0) ELSE RatAdd(Head(s), RatSum(Tail(s)))

\* ------------------------------------------------------------ numpy
\* np.mean of one row.
np_mean(row) == RatDivInt(RatSum([i \in 1..Len(row) |-> FromInt(row[i])]), Len(row))

\* ndarray.sort(): ascending, by insertion.
RECURSIVE Insert(_, _)
Insert(x, s) ==
  IF s = <<>> THEN <<x>>
  ELSE IF x <= Head(s) THEN <<x>> \o s
  ELSE <<Head(s)>> \o Insert(x, Tail(s))
RECURSIVE sort(_)
sort(s) == IF s = <<>> THEN <<>> ELSE Insert(Head(s), sort(Tail(s)))

\* a[i] on an ndarray of length n, i a 0-based Python index.
IndexOK(a, i) == -Len(a) <= i /\ i < Len(a)
Item(a, i) == IF i < 0 THEN a[Len(a) + i + 1] ELSE a[i + 1]

\* np.flip(a, axis=0)
flip(a) == [i \in 1..Len(a) |-> a[Len(a) + 1 - i]]

\* np.abs(data - mean).argmin(): the first 0-based index of the minimum.
argmin(d) ==
  (CHOOSE i \in 1..Len(d) :
     /\ \A j \in 1..Len(d) : ~RatLess(d[j], d[i])
     /\ \A j \in 1..(i - 1) : RatLess(d[i], d[j])) - 1
argmin_abs(data, mean) ==
  argmin([i \in 1..Len(data) |-> RatAbs(RatSub(FromInt(data[i]), mean))])


\* ------------------------------------------------------------ state
VARIABLES
  fname,          \* self.fname: "" or the name of the file read last
  data,           \* self.data: [] or the rows of the dataset read last
  bins,           \* self.bins: [] or the bin labels read from a header
  means,          \* self.means: [] or one mean per row
  sigmas,         \* self.sigmas: [] or one [down, up] pair per row
  covariance,     \* self.covariance
  correlations,   \* self.correlations
  histograms,     \* self.histograms: [] or one (hist, bin_edges) per row
  histograms_rf,  \* self.histograms_rf
  stderr,         \* what the last call wrote to sys.stderr
  call,           \* the last method called and how it ended
  histogram,      \* _reflect_histogram on its own: the histogram passed,
  center,         \*   the center passed,
  reflected,      \*   and what it returned (<<>> before the call)
  file,           \* list_variables: the lines of the file read,
  h_list          \*   and what the call returned

loaded == <<fname, data, bins>>
stats == <<means, sigmas, covariance, correlations>>
hists == <<histograms, histograms_rf>>
session == <<loaded, stats, hists, stderr, call>>
pure == <<histogram, center, reflected, file, h_list>>
vars == <<session, pure>>

Done(op, arg) == [op |-> op, arg |-> arg, err |-> "none"]
Raised(op, arg, e) == [op |-> op, arg |-> arg, err |-> e]

\* self.covariance is a Python list ([] at construction, or NaN placeholders
\* and row arrays), the 2-d ndarray np.cov returns for a dataset, or the 0-d
\* ndarray holding not-a-number that np.cov returns for no data.  An element
\* of the list or a row of the 2-d array is the float NaN placeholder or a
\* row array.
Placeholder == [nan |-> TRUE, row |-> <<>>]
RowArray(r) == [nan |-> FALSE, row |-> r]
EmptyList == [kind |-> "list", rows |-> <<>>]
ZeroDim == [kind |-> "0-d", rows |-> <<>>]

\* ------------------------------------------------------------ __init__, reset
\* The fields as __init__ leaves them.
Idle(op) ==
  /\ fname = ""
  /\ data = <<>>
  /\ bins = <<>>
  /\ means = <<>>
  /\ sigmas = <<>>
  /\ covariance = EmptyList
  /\ correlations = <<>>
  /\ histograms = <<>>
  /\ histograms_rf = <<>>
  /\ stderr = <<>>
  /\ call = Done(op, 0)

NoCall ==
  /\ histogram = <<>>
  /\ center = 0
  /\ reflected = <<>>
  /\ file = <<>>
  /\ h_list = [status |-> "idle", value |-> <<>>]

reset ==
  /\ fname' = ""
  /\ data' = <<>>
  /\ bins' = <<>>
  /\ means' = <<>>
  /\ sigmas' = <<>>
  /\ covariance' = EmptyList
  /\ correlations' = <<>>
  /\ histograms' = <<>>
  /\ histograms_rf' = <<>>
  /\ stderr' = <<>>
  /\ call' = Done("reset", 0)
  /\ UNCHANGED pure

\* ------------------------------------------------------------ read_file
\* A file is its name, the matrix np.loadtxt(fname, unpack=True) returns (d,
\* one row per column of the file) and the numbers on its second line
\* (labels).  np.loadtxt gives a two-dimensional array only for 2 or more rows
\* of 2 or more samples.
read_file(name, d, header, labels) ==
  /\ fname' = name
  /\ data' = d
  /\ bins' = IF header THEN labels ELSE bins
  /\ stderr' = <<>>
  /\ call' = Done("read_file", 0)
  /\ UNCHANGED <<pure, stats, hists>>

\* ------------------------------------------------------------ means
\* np.mean(self.data, axis=1) on a two-dimensional array.
MeansOf(d) == [i \in 1..Len(d) |-> np_mean(d[i])]

\* On the empty list np.mean has no axis 1: numpy.AxisError, an IndexError.
compute_means ==
  /\ IF data = <<>>
     THEN /\ means' = means
          /\ call' = Raised("compute_means", 0, "AxisError")
     ELSE /\ means' = MeansOf(data)
          /\ call' = Done("compute_means", 0)
  /\ stderr' = <<>>
  /\ UNCHANGED <<pure, hists, loaded, sigmas, covariance, correlations>>

\* ------------------------------------------------------------ sigmas
\* int(0.34*len(data) + 0.5)
sigmaData(n) == (34 * n + 50) \div 100

UpperMsg(index) == [text |-> "Upper 68% limmit not well defined for bin", bin |-> index]
LowerMsg(index) == [text |-> "Lower 68% limmit not well defined for bin", bin |-> index]
ApproxMsg == [text |-> "Making an approximation", bin |-> -1]

\* sigma_up with the handler's test off by one.
sigma_up_slip(sorted, mean, index) ==
  LET Try(m, k) ==
        IF IndexOK(sorted, m + k)
        THEN [val |-> RatSub(FromInt(Item(sorted, m + k)), mean), msgs |-> <<>>]
        ELSE IF (m + k - Len(sorted)) = 1
        THEN [val |-> RatSub(FromInt(Item(sorted, Len(sorted) - 1)), mean),
              msgs |-> <<UpperMsg(index), ApproxMsg>>]
        ELSE [val |-> NaN, msgs |-> <<UpperMsg(index)>>]
  IN  Try(argmin_abs(sorted, mean), sigmaData(Len(sorted)))

\* The first try/except of the loop body: data is the sorted row.
sigma_up(sorted, mean, index) ==
  LET Try(mean_index, k) ==
        IF IndexOK(sorted, mean_index + k)
        THEN [val |-> RatSub(FromInt(Item(sorted, mean_index + k)), mean),
              msgs |-> <<>>]
        ELSE IF (mean_index + k - Len(sorted)) = 0
        THEN [val |-> RatSub(FromInt(Item(sorted, mean_index + k - 1)), mean),
              msgs |-> <<UpperMsg(index), ApproxMsg>>]
        ELSE [val |-> NaN, msgs |-> <<UpperMsg(index)>>]
  IN  Try(argmin_abs(sorted, mean), sigmaData(Len(sorted)))

\* The second try/except.  An IndexError inside the handler is not caught.
sigma_down(sorted, mean, index) ==
  LET Try(mean_index, k) ==
        IF IndexOK(sorted, mean_index - k)
        THEN [val |-> RatSub(FromInt(Item(sorted, mean_index - k)), mean),
              msgs |-> <<>>, raised |-> FALSE]
        ELSE IF (mean_index - k) = -1
        THEN IF IndexOK(sorted, mean_index + k + 1)
             THEN [val |-> RatSub(FromInt(Item(sorted, mean_index + k + 1)), mean),
                   msgs |-> <<LowerMsg(index), ApproxMsg>>, raised |-> FALSE]
             ELSE [val |-> NaN, msgs |-> <<LowerMsg(index), ApproxMsg>>,
                   raised |-> TRUE]
        ELSE [val |-> NaN, msgs |-> <<LowerMsg(index)>>, raised |-> FALSE]
  IN  Try(argmin_abs(sorted, mean), sigmaData(Len(sorted)))

\* One pass of the loop body for row `index` (0-based) with the stored means
\* mu.  self.means[index] raises IndexError when mu holds no such entry.
RowSigma(d, mu, index) ==
  LET Store(down, up) ==
        [pair |-> <<RatAbs(down.val), up.val>>,
         msgs |-> up.msgs \o down.msgs,
         raised |-> down.raised]
      Body(sorted, mean) ==
        Store(sigma_down(sorted, mean, index), sigma_up(sorted, mean, index))
  IN  IF index >= Len(mu)
      THEN [pair |-> <<NaN, NaN>>, msgs |-> <<>>, raised |-> TRUE]
      ELSE Body(sort(d[index + 1]), mu[index + 1])

RECURSIVE Flatten(_)
Flatten(ss) == IF ss = <<>> THEN <<>> ELSE Head(ss) \o Flatten(Tail(ss))

\* The loop runs once per row of self.data and stops at the first row that
\* raises; self.sigmas is assigned after the loop.
compute_sigmas ==
  \E rows \in {[i \in 1..Len(data) |-> RowSigma(data, means, i - 1)]} :
    LET bad == {i \in 1..Len(data) : rows[i].raised}
        last == IF bad = {} THEN Len(data)
                ELSE CHOOSE i \in bad : \A j \in bad : i <= j
    IN  /\ stderr' = Flatten([i \in 1..last |-> rows[i].msgs])
        /\ IF bad = {}
           THEN /\ sigmas' = [i \in 1..Len(data) |-> rows[i].pair]
                /\ call' = Done("compute_sigmas", 0)
           ELSE /\ sigmas' = sigmas
                /\ call' = Raised("compute_sigmas", 0, "IndexError")
        /\ UNCHANGED <<pure, hists, loaded, means, covariance, correlations>>

\* ------------------------------------------------------------ covariance
\* sum_t (x_t - mx) * (y_t - my)
CrossDev(x, mx, y, my) ==
  RatSum([t \in 1..Len(x) |->
            RatMul(RatSub(FromInt(x[t]), mx), RatSub(FromInt(y[t]), my))])

\* np.cov(d): rows are variables, columns observations, ddof = 1.  For no
\* data the result is the 0-d array holding not-a-number.
np_cov(d) ==
  IF d = <<>> THEN ZeroDim
  ELSE LET mu == MeansOf(d)
           n == Len(d[1])
           C == [i \in 1..Len(d) |-> RowArray([j \in 1..Len(d) |->
                   RatDivInt(CrossDev(d[i], mu[i], d[j], mu[j]), n - 1)])]
       IN  [kind |-> "ndarray", rows |-> C]

compute_covariance_matrix ==
  /\ covariance' = np_cov(data)
  /\ stderr' = <<>>
  /\ call' = Done("compute_covariance_matrix", 0)
  /\ UNCHANGED <<pure, hists, loaded, means, sigmas, correlations>>

\* np.mean([wzbin_half*(w - w_mean) for w, w_mean in zip(data, means)], axis=1):
\* zip stops at the shorter of the two.
CovarianceBinRow(d, mu, zbin) ==
  [j \in 1..(IF Len(d) < Len(mu) THEN Len(d) ELSE Len(mu)) |->
     RatDivInt(CrossDev(d[zbin + 1], mu[zbin + 1], d[j], mu[j]), Len(d[j]))]

\* How lines 146-148 end for the means mu and the container c: self.data[zbin]
\* and self.means[zbin] need the index to exist; item assignment needs it to
\* exist in a list or a 2-d array, where the row written must fit the row it
\* replaces, and a 0-d array takes no index.
CovarianceBinError(d, mu, c, zbin) ==
  IF zbin >= Len(d) \/ zbin >= Len(mu) THEN "IndexError"
  ELSE IF c.kind = "0-d" \/ zbin >= Len(c.rows) THEN "IndexError"
  ELSE IF /\ c.kind = "ndarray"
          /\ Len(CovarianceBinRow(d, mu, zbin)) \notin {1, Len(c.rows)}
       THEN "ValueError"
  ELSE "none"

compute_covariance_bin(zbin) ==
  IF means = <<>> /\ data = <<>>
  THEN \* compute_means raises
       /\ call' = Raised("compute_covariance_bin", zbin, "AxisError")
       /\ stderr' = <<>>
       /\ UNCHANGED <<pure, hists, loaded, stats>>
  ELSE LET mu == IF means = <<>> THEN MeansOf(data) ELSE means
           c == IF covariance = EmptyList
                THEN [kind |-> "list", rows |-> [i \in 1..Len(bins) |-> Placeholder]]
                ELSE covariance
           err == CovarianceBinError(data, mu, c, zbin)
       IN  /\ means' = mu
           /\ covariance' =
                IF err = "none"
                THEN [c EXCEPT !.rows[zbin + 1] = RowArray(CovarianceBinRow(data, mu, zbin))]
                ELSE c
           /\ call' = IF err = "none" THEN Done("compute_covariance_bin", zbin)
                      ELSE Raised("compute_covariance_bin", zbin, err)
           /\ stderr' = <<>>
           /\ UNCHANGED <<pure, hists, loaded, sigmas, correlations>>

\* ------------------------------------------------------------ correlations
\* `np.nan in rows` for a Python list: identity with the placeholder is a hit;
\* a row array compares elementwise and its truth value is taken.
RECURSIVE NanInList(_)
NanInList(rows) ==
  IF rows = <<>> THEN "False"
  ELSE IF Head(rows).nan THEN "True"
  ELSE IF Len(Head(rows).row) > 1 THEN "ValueError"
  ELSE NanInList(Tail(rows))

\* `np.nan in self.covariance`; no entry of an ndarray compares equal to NaN.
NanIn(c) == IF c.kind = "list" THEN NanInList(c.rows) ELSE "False"

\* self.covariance / np.sqrt(c * c[:, None]) with c = np.diag(self.covariance)
Normalise(c) ==
  LET diag == [i \in 1..Len(c.rows) |-> c.rows[i].row[i]]
  IN  [i \in 1..Len(c.rows) |-> [j \in 1..Len(c.rows) |->
         [num |-> c.rows[i].row[j], rad |-> RatMul(diag[i], diag[j])]]]

\* np.diag raises ValueError on a 0-d array, after line 124 has stored it.
compute_correlations ==
  LET dirty == IF covariance = EmptyList THEN "True" ELSE NanIn(covariance)
      c == IF dirty = "True" THEN np_cov(data) ELSE covariance
  IN  /\ IF dirty = "ValueError"
         THEN /\ call' = Raised("compute_correlations", 0, "ValueError")
              /\ UNCHANGED <<covariance, correlations>>
         ELSE IF c.kind = "0-d"
         THEN /\ call' = Raised("compute_correlations", 0, "ValueError")
              /\ covariance' = c
              /\ correlations' = correlations
         ELSE /\ covariance' = c
              /\ correlations' = Normalise(c)
              /\ call' = Done("compute_correlations", 0)
      /\ stderr' = <<>>
      /\ UNCHANGED <<pure, hists, loaded, means, sigmas>>

\* ------------------------------------------------------------ Spec
\* The files read: an empty session reads any dataset of Matrices with any
\* header of Headers; any session reads a dataset of Reloads, two samples per
\* row and up to one row more than Matrices has, with one label per row.
Matrices(maxRows, maxSamples, maxVal) ==
  UNION {UNION {[1..r -> [1..n -> 0..maxVal]] : n \in 2..maxSamples}
         : r \in 2..maxRows}

Reloads(maxRows, maxVal) ==
  {[i \in 1..r |-> <<0, v>>] : r \in 2..(maxRows + 1), v \in 1..maxVal}

\* header=False, or header=True and a second line of 1..maxLabels labels.
Headers(maxLabels) ==
  {[header |-> FALSE, labels |-> <<>>]}
  \cup {[header |-> TRUE, labels |-> [i \in 1..l |-> i]] : l \in 1..maxLabels}

\* header=True and one label per row.
Labelled(d) == [header |-> TRUE, labels |-> [i \in 1..Len(d) |-> i]]

Init == Idle("__init__") /\ NoCall

Next ==
  \/ /\ data = <<>>
     /\ \E d \in Matrices(MaxRows, MaxSamples, MaxVal) : \E h \in Headers(MaxLabels) :
          read_file("data.txt", d, h.header, h.labels)
  \/ \E d \in Reloads(MaxRows, MaxVal) : read_file("data.txt", d, TRUE, Labelled(d).labels)
  \/ reset
  \/ compute_means
  \/ compute_sigmas
  \/ compute_covariance_matrix
  \/ \E zbin \in 0..MaxRows : compute_covariance_bin(zbin)
  \/ compute_correlations

Spec == Init /\ [][Next]_vars

\* ------------------------------------------------------------ SpecSigma
\* The same session on longer rows: the boundary cases of compute_sigmas need
\* eight samples.  A dataset is one free row, ascending or descending, above
\* or below a row of zeros; the files carry one label per row.
RECURSIVE Ascending(_, _, _)
Ascending(n, lo, hi) ==
  IF n = 0 THEN {<<>>}
  ELSE UNION {{Append(s, v) : s \in Ascending(n - 1, lo, v)} : v \in lo..hi}

SigmaRows(maxSamples, maxVal) ==
  UNION {UNION {{s, flip(s)} : s \in Ascending(n, 0, maxVal)}
         : n \in 2..maxSamples}

SigmaDatasets(maxSamples, maxVal) ==
  UNION {{[i \in 1..2 |-> IF i = at THEN r ELSE [t \in 1..Len(r) |-> 0]]
          : r \in SigmaRows(maxSamples, maxVal)}
         : at \in {1, 2}}

NextSigma ==
  \/ /\ data = <<>>
     /\ \E d \in SigmaDatasets(SigmaMaxSamples, SigmaMaxVal) :
          read_file("data.txt", d, TRUE, Labelled(d).labels)
  \/ \E d \in Reloads(MaxRows, MaxVal) : read_file("data.txt", d, TRUE, Labelled(d).labels)
  \/ reset
  \/ compute_means
  \/ compute_sigmas

SpecSigma == Init /\ [][NextSigma]_vars

\* ------------------------------------------------------------ claims: sigmas
\* The quantities the claims name, for row i (1-based) of the dataset, in
\* integers: n samples, the sorted copy, k, and m the first 0-based index of
\* the sorted sample closest to the mean.  The mean is the one compute_sigmas
\* reads, the stored mean a/b of the row: the mean of the row's samples
\* whenever compute_means ran on the dataset held.
ClaimN(i) == Len(data[i])
ClaimK(i) == (34 * ClaimN(i) + 50) \div 100
ClaimSorted(i) == sort(data[i])
\* b * (sorted[p] - a/b) for every 0-based p
ClaimDevs(i) ==
  LET s == ClaimSorted(i)
  IN  [p \in 0..(ClaimN(i) - 1) |-> means[i].den * s[p + 1] - means[i].num]
ClaimClosest(dev) ==
  CHOOSE m \in DOMAIN dev :
    /\ \A q \in DOMAIN dev : Abs(dev[m]) <= Abs(dev[q])
    /\ \A q \in DOMAIN dev : q < m => Abs(dev[m]) < Abs(dev[q])
ClaimM(i) == ClaimClosest(ClaimDevs(i))
\* sorted[p] - mean
ClaimDev(i, p) == Rat(ClaimDevs(i)[p], means[i].den)

SigmasDone == call.op = "compute_sigmas" /\ call.err = "none"
Warned(msg) == \E p \in 1..Len(stderr) : stderr[p] = msg
FlaggedApprox(msg) ==
  \E p \in 1..(Len(stderr) - 1) : stderr[p] = msg /\ stderr[p + 1] = ApproxMsg

\* C3: after compute_sigmas, for every row: if m+k <= n-1 the upper magnitude
\* is sorted[m+k] - mean and no upper warning names the row; if m+k = n it is
\* the approximation sorted[n-1] - mean, flagged; if m+k > n it is
\* not-a-number and a warning names the row.
C3_UpperRule ==
  SigmasDone =>
    \A i \in 1..Len(data) : \E e \in {ClaimM(i) + ClaimK(i)} :
      LET n == ClaimN(i)
          up == sigmas[i][2]
      IN  /\ e <= n - 1 => up = ClaimDev(i, e) /\ ~Warned(UpperMsg(i - 1))
          /\ e = n => up = ClaimDev(i, n - 1) /\ FlaggedApprox(UpperMsg(i - 1))
          /\ e > n => /\ IsNaN(up)
                      /\ Warned(UpperMsg(i - 1))
                      /\ ~FlaggedApprox(UpperMsg(i - 1))

\* C3 witness: compute_sigmas has run on a row that overshoots by more than one.
C3_Witness ==
  /\ SigmasDone
  /\ \E i \in 1..Len(data) :
       ClaimM(i) + ClaimK(i) > ClaimN(i) /\ IsNaN(sigmas[i][2])

\* C2 as claimed: after compute_sigmas, for every row: if m-k >= 0 the lower
\* magnitude is |sorted[m-k] - mean|; if m-k = -1 it is the flagged
\* approximation |sorted[m+k+1] - mean|; if m-k < -1 it is not-a-number and a
\* warning names the row.
C2_LowerRule ==
  SigmasDone =>
    \A i \in 1..Len(data) :
      LET n == ClaimN(i)
          b == ClaimM(i) - ClaimK(i)
          a == ClaimM(i) + ClaimK(i) + 1
          down == sigmas[i][1]
      IN  /\ b >= 0 => down = RatAbs(ClaimDev(i, b))
          /\ b = -1 => /\ a <= n - 1 => down = RatAbs(ClaimDev(i, a))
                       /\ FlaggedApprox(LowerMsg(i - 1))
          /\ b < -1 => IsNaN(down) /\ Warned(LowerMsg(i - 1))

\* C4 as claimed: after compute_sigmas with the means computed for the dataset
\* held, both stored magnitudes of every row are non-negative unless
\* not-a-number.
C4_NonNegative ==
  (SigmasDone /\ means = MeansOf(data)) =>
    \A i \in 1..Len(data) : \A c \in 1..2 :
      IsNaN(sigmas[i][c]) \/ RatNonNeg(sigmas[i][c])

\* ------------------------------------------------------------ claims: covariance
\* Row i (1-based) of the stored covariance is the one compute_covariance_bin
\* writes for the dataset held.
BinRowOfData(i) ==
  /\ ~covariance.rows[i].nan
  /\ covariance.rows[i].row = CovarianceBinRow(data, MeansOf(data), i - 1)

\* C1 as claimed: once compute_covariance_bin(k) has written every row k for
\* the dataset held into a fresh container, the assembled rows equal np.cov
\* of the dataset entry by entry.
C1_BinRowsEqualMatrix ==
  (/\ data # <<>>
   /\ covariance.kind = "list"
   /\ Len(covariance.rows) = Len(data)
   /\ \A i \in 1..Len(data) : BinRowOfData(i))
  => \A i \in 1..Len(data) : \A j \in 1..Len(data) :
       covariance.rows[i].row[j] = np_cov(data).rows[i].row[j]

\* num / sqrt(rad) as a real number, for rad > 0.
Sign(x) == IF x > 0 THEN 1 ELSE IF x < 0 THEN -1 ELSE 0
CorrEqual(a, b) ==
  /\ a.rad.num > 0 /\ b.rad.num > 0
  /\ Sign(a.num.num) = Sign(b.num.num)
  /\ RatMul(RatMul(a.num, a.num), b.rad) = RatMul(RatMul(b.num, b.num), a.rad)
CorrIsOne(a) == CorrEqual(a, [num |-> FromInt(1), rad |-> FromInt(1)])

NonZeroVariance == \A i \in 1..Len(data) : \E t \in 1..Len(data[i]) : data[i][t] # data[i][1]
CorrelationsDone == call.op = "compute_correlations" /\ call.err = "none"

\* Every row of the stored covariance was written for the dataset held, by
\* compute_covariance_matrix or by compute_covariance_bin.
CovarianceOfData ==
  /\ data # <<>>
  /\ covariance.kind \in {"list", "ndarray"}
  /\ Len(covariance.rows) = Len(data)
  /\ \A i \in 1..Len(data) :
       \/ BinRowOfData(i)
       \/ covariance.rows[i] = np_cov(data).rows[i]

\* C5 as claimed: after compute_correlations on a covariance written by
\* compute_covariance_matrix and compute_covariance_bin for the dataset held,
\* whose rows all have non-zero variance, the stored correlation matrix is
\* symmetric and its diagonal is 1.
C5_SymmetricUnitDiagonal ==
  (CorrelationsDone /\ NonZeroVariance /\ CovarianceOfData) =>
    \A i \in 1..Len(data) :
      /\ CorrIsOne(correlations[i][i])
      /\ \A j \in 1..Len(data) : CorrEqual(correlations[i][j], correlations[j][i])

\* The stored covariance is missing or holds a not-a-number entry.
Dirty(c) ==
  \/ c = EmptyList
  \/ c.kind = "0-d"
  \/ c.kind = "list" /\ \E i \in 1..Len(c.rows) : c.rows[i].nan

\* C6 as claimed: a compute_correlations call on a session holding a dataset
\* that finds the covariance missing or holding a not-a-number entry ends
\* without error, with the full covariance matrix stored and the
\* correlations derived from it.
C6_RecomputeOnDirty ==
  [][(call'.op = "compute_correlations" /\ data # <<>> /\ Dirty(covariance)) =>
       /\ call'.err = "none"
       /\ covariance' = np_cov(data)
       /\ correlations' = Normalise(np_cov(data))]_vars

\* C8 as claimed: a compute call on a session that holds a dataset and lacks
\* the means or the covariance it depends on ends without error and leaves
\* the prerequisite in place.
C8_PrerequisitesRecovered ==
  [][/\ (data # <<>> /\ means = <<>>
           /\ call'.op \in {"compute_sigmas", "compute_covariance_bin"})
          => call'.err = "none" /\ means' # <<>>
     /\ (data # <<>> /\ covariance = EmptyList
           /\ call'.op \in {"compute_covariance_bin", "compute_correlations"})
          => call'.err = "none" /\ covariance' # EmptyList]_vars

\* ------------------------------------------------------------ histograms
\* SpecHist: compute(bins) is called with the edges of 1..MaxBins bins in
\* 0..MaxEdge, reflect_histograms with a center in 0..MaxCenter, and the runs
\* stop at MaxReflectCalls calls' worth of reflections.
MaxBins == 2
MaxEdge == 1
MaxCenter == 1
MaxReflectCalls == 2

\* np.histogram(row, bins=edges) for a sequence of edges: bin b is
\* [edges[b], edges[b+1]), the last bin closed on the right.
np_histogram(row, edges) ==
  LET nb == Len(edges) - 1
      InBin(v, b) ==
        /\ edges[b] <= v
        /\ (v < edges[b + 1] \/ (b = nb /\ v = edges[b + 1]))
  IN  <<[b \in 1..nb |-> Cardinality({t \in 1..Len(row) : InBin(row[t], b)})],
        edges>>

\* compute(bins) -> _compute_histograms(bins)
compute(edges) ==
  /\ histograms' = [i \in 1..Len(data) |-> np_histogram(data[i], edges)]
  /\ stderr' = <<>>
  /\ call' = Done("compute", 0)
  /\ UNCHANGED <<pure, stats, loaded, histograms_rf>>

RECURSIVE min(_)
min(x) ==
  IF Len(x) = 1 THEN x[1]
  ELSE LET r == min(Tail(x)) IN IF r < x[1] THEN r ELSE x[1]

\* _reflect_histogram shifting by center alone when center is not 0.
_reflect_histogram_slip(h, c) ==
  LET x == h[2]
      y == h[1]
      x0 == min(x)
      X == flip([i \in 1..(Len(x) - 1) |-> 2 * x0 - x[i + 1]]) \o x
      Y == flip(y) \o y
  IN  IF c = 0 THEN <<Y, [i \in 1..Len(X) |-> X[i] - x0]>>
      ELSE <<Y, [i \in 1..Len(X) |-> X[i] + c]>>

\* A histogram is <<hist, bin_edges>> and the result is [Y, X].
_reflect_histogram(h, c) ==
  LET x == h[2]
      y == h[1]
      x0 == min(x)
      x_rf == flip([i \in 1..(Len(x) - 1) |-> 2 * x0 - x[i + 1]])
      y_rf == flip(y)
      X == x_rf \o x
      Y == y_rf \o y
  IN  IF c = 0 THEN <<Y, [i \in 1..Len(X) |-> X[i] - x0]>>
      ELSE IF c # 0 THEN <<Y, [i \in 1..Len(X) |-> X[i] + (c - x0)]>>
      ELSE <<Y, X>>

reflect_histograms(c) ==
  /\ histograms_rf' =
       histograms_rf \o [i \in 1..Len(histograms) |-> _reflect_histogram(histograms[i], c)]
  /\ stderr' = <<>>
  /\ call' = Done("reflect_histograms", c)
  /\ UNCHANGED <<pure, stats, loaded, histograms>>

\* The edges np.histogram accepts, none decreasing, with lo <= edge <= hi.
Edges(lo, hi, maxBins) == UNION {Ascending(n, lo, hi) : n \in 2..(maxBins + 1)}

\* histograms_rf only grows between two resets: a run goes on while the
\* list holds fewer than MaxReflectCalls reflections per row.
NextHist ==
  \/ /\ data = <<>>
     /\ \E d \in Matrices(MaxRows, MaxSamples, MaxVal) :
          read_file("data.txt", d, TRUE, Labelled(d).labels)
  \/ \E d \in Reloads(MaxRows, MaxVal) : read_file("data.txt", d, TRUE, Labelled(d).labels)
  \/ reset
  \/ \E edges \in Edges(0, MaxEdge, MaxBins) : compute(edges)
  \/ /\ Len(histograms_rf) < MaxReflectCalls * MaxRows
     /\ \E c \in 0..MaxCenter : reflect_histograms(c)

SpecHist == Init /\ [][NextHist]_vars

\* C10 as claimed: after a reflect_histograms() call on the histograms
\* computed for the dataset held, histograms_rf holds exactly one entry per
\* row, the i-th being the reflection of the stored histogram of row i.
C10_OneReflectionPerRow ==
  (/\ call.op = "reflect_histograms"
   /\ data # <<>>
   /\ \E edges \in Edges(0, MaxEdge, MaxBins) :
        histograms = [i \in 1..Len(data) |-> np_histogram(data[i], edges)]) =>
    /\ Len(histograms_rf) = Len(data)
    /\ \A i \in 1..Len(data) :
         histograms_rf[i] = _reflect_histogram(histograms[i], call.arg)

\* ------------------------------------------------------------ SpecReflect
\* _reflect_histogram on any histogram of 1..ReflectMaxBins bins with counts
\* 0..ReflectMaxCount and edges in -ReflectMaxEdge..ReflectMaxEdge, and any
\* center in -ReflectMaxCenter..ReflectMaxCenter.
ReflectMaxBins == 2
ReflectMaxCount == 2
ReflectMaxEdge == 2
ReflectMaxCenter == 2

InitReflect ==
  /\ Idle("__init__")
  /\ \E e \in Edges(-ReflectMaxEdge, ReflectMaxEdge, ReflectMaxBins) :
       \E y \in [1..(Len(e) - 1) -> 0..ReflectMaxCount] : histogram = <<y, e>>
  /\ center \in -ReflectMaxCenter..ReflectMaxCenter
  /\ reflected = <<>>
  /\ file = <<>>
  /\ h_list = [status |-> "idle", value |-> <<>>]

Reflect ==
  /\ reflected' = _reflect_histogram(histogram, center)
  /\ UNCHANGED <<session, histogram, center, file, h_list>>

NextReflect == Reflect

SpecReflect == InitReflect /\ [][NextReflect]_vars

\* C7: for a histogram of n bins and a center c, the result holds 2n counts,
\* the original counts reversed and then the original counts, and 2n+1 edges,
\* (2*x0 - edges[1:]) reversed and then the original edges, all shifted by
\* c - x0 with x0 the least edge; the edge at index n is c.
C7_Reflection ==
  reflected # <<>> =>
    LET y == histogram[1]
        x == histogram[2]
        n == Len(y)
        x0 == CHOOSE v \in {x[i] : i \in 1..Len(x)} : \A i \in 1..Len(x) : v <= x[i]
        Y == reflected[1]
        X == reflected[2]
    IN  /\ Len(Y) = 2 * n
        /\ \A i \in 1..n : Y[i] = y[n + 1 - i] /\ Y[n + i] = y[i]
        /\ Len(X) = 2 * n + 1
        /\ \A i \in 1..n : X[i] = (2 * x0 - x[n + 2 - i]) + (center - x0)
        /\ \A i \in 1..(n + 1) : X[n + i] = x[i] + (center - x0)
        /\ X[n + 1] = center

\* C7 witness: a histogram of two bins whose least edge is not 0 has been
\* reflected about a center that is not 0.
C7_Witness ==
  /\ reflected # <<>>
  /\ Len(histogram[1]) = 2
  /\ histogram[1][1] # histogram[1][2]
  /\ histogram[2][1] # 0
  /\ center # 0

\* ------------------------------------------------------------ list_variables
\* SpecHeaders: a file of one line of at most MaxLineLen characters, or of
\* two lines the second of at most MaxTailLen characters.  A line ends "\n".
MaxLineLen == 5
MaxTailLen == 1

Chars == {"#", "1", ":", "x", " "}
Digits == {"0", "1", "2", "3", "4", "5", "6", "7", "8", "9"}
\* The characters str.strip() removes: space, \t, \n, \r, form feed and
\* vertical tab (chr(11), written VT).
VT == "\\v"
Whitespace == {" ", "\t", "\n", "\r", "\f", VT}

Texts(maxLen) == UNION {[1..n -> Chars] : n \in 0..maxLen}
Files(maxLineLen, maxTailLen) ==
  {<<Append(a, "\n")>> : a \in Texts(maxLineLen)}
  \cup {<<Append(a, "\n"), Append(b, "\n")>> : a \in Texts(maxLineLen), b \in Texts(maxTailLen)}

\* The loop over the file: the last line of the leading block of '#' lines.
RECURSIVE LastComment(_, _)
LastComment(lines, prev_line) ==
  IF lines = <<>> THEN prev_line
  ELSE IF Head(Head(lines)) # "#" THEN prev_line
  ELSE LastComment(Tail(lines), Head(lines))

\* The end of the run of digits that starts at s[i].
RECURSIVE RunEnd(_, _)
RunEnd(s, i) == IF i < Len(s) /\ s[i + 1] \in Digits THEN RunEnd(s, i + 1) ELSE i

\* re.split('\d+:', s): the pieces between the matches, read from s[i] on
\* with cur the piece so far.  A match is a whole run of digits and the colon
\* after it.
RECURSIVE re_split(_, _, _)
re_split(s, i, cur) ==
  IF i > Len(s) THEN <<cur>>
  ELSE IF s[i] \in Digits
  THEN LET j == RunEnd(s, i)
       IN  IF j < Len(s) /\ s[j + 1] = ":"
           THEN <<cur>> \o re_split(s, j + 2, <<>>)
           ELSE re_split(s, j + 1, cur \o SubSeq(s, i, j))
  ELSE re_split(s, i + 1, Append(cur, s[i]))

\* str.strip
RECURSIVE strip(_)
strip(t) ==
  IF t = <<>> THEN t
  ELSE IF Head(t) \in Whitespace THEN strip(Tail(t))
  ELSE IF t[Len(t)] \in Whitespace THEN strip(SubSeq(t, 1, Len(t) - 1))
  ELSE t

list_variables(lines) ==
  LET prev_line == LastComment(lines, <<>>)
      pieces == Tail(re_split(prev_line, 1, <<>>))
  IN  [status |-> "returned", value |-> [i \in 1..Len(pieces) |-> strip(pieces[i])]]

InitHeaders ==
  /\ Idle("__init__")
  /\ histogram = <<>>
  /\ center = 0
  /\ reflected = <<>>
  /\ file \in Files(MaxLineLen, MaxTailLen)
  /\ h_list = [status |-> "idle", value |-> <<>>]

ListVariables ==
  /\ h_list' = list_variables(file)
  /\ UNCHANGED <<session, histogram, center, reflected, file>>

NextHeaders == ListVariables

SpecHeaders == InitHeaders /\ [][NextHeaders]_vars

\* The file's leading '#' lines, and whether line s holds a column marker:
\* a digit with, after the digits that follow it, a colon.
LeadingComments(lines) == {i \in 1..Len(lines) : \A j \in 1..i : lines[j][1] = "#"}
HasMarker(s) ==
  \E p \in 1..Len(s) : \E q \in (p + 1)..Len(s) :
    /\ s[q] = ":"
    /\ \A r \in p..(q - 1) : s[r] \in Digits
NoMarkerHeader(lines) ==
  \/ LeadingComments(lines) = {}
  \/ \E i \in LeadingComments(lines) :
       /\ i + 1 \notin LeadingComments(lines)
       /\ ~HasMarker(lines[i])

\* C9 as claimed: list_variables on a file whose last leading comment line
\* holds no column marker, or that has no leading comment line, reports an
\* error instead of returning a list.
C9_MalformedHeaderReported ==
  (h_list.status # "idle" /\ NoMarkerHeader(file)) => h_list.status = "raised"

====
